---- MODULE Spec2Model ----
(***************************************************************************)
(* Model of the LEAP client of tron (src/client.go): the pairing           *)
(* bootstrap Client.Pair and the calls Client.Ping and Client.Devices.     *)
(*                                                                         *)
(* Procs are the threads of one process that share the Client.  A thread  *)
(* invokes Pair, Ping or Devices, the invocation returns, the caller takes *)
(* the result (Finish) and a next invocation can be made.  An invocation   *)
(* is cut into steps at its I/O operations (dial, read, write, file        *)
(* access), so that the peer and the deadline can act between them.  A     *)
(* step that returns runs the deferred conn.Close().  Invocations are made *)
(* one after the other.                                                    *)
(*                                                                         *)
(* Values are tuples of strings:                                           *)
(*   file contents  <<"absent">>, <<"empty">>, <<"partial", x>>,           *)
(*                  <<"pem", x>>                                           *)
(*   received lines <<"none">>, <<"garbage">>, <<"ready">>,                *)
(*                  <<"resp", tag, class, status, body>>,                  *)
(*                  <<"pair", shape, certificate, rootCertificate>>        *)
(*   results        <<"none">> (not returned), <<"nil">> (returned nil),   *)
(*                  <<"ok", value>>, <<"err", cause>>                      *)
(***************************************************************************)
EXTENDS Naturals, Sequences, FiniteSets

(* ---------------------------- bounds ----------------------------------- *)

\* number of threads that use the Client
NumProcs == 2

\* number of private keys generated during one process lifetime
MaxKeys == 2

\* the number of words after the command of a `tron zone` command line
MaxArgs == 4

Procs == 1..NumProcs

(* --------------------------- constants --------------------------------- *)

controlPort == 8081

pairingPort == 8083

\* the n-th key rsa.GenerateKey returns: fresh randomness, so every call
\* returns a key not seen before
FreshKey(n) == <<"k", n>>

\* the key left in ClientKeyPath by a pairing made before the process started
OldKey == <<"k", 0>>

\* PEM certificates a peer may send; IssuedTo says whose public key each holds
Certs == {"A", "B"}

IssuedTo(c) == IF c = "A" THEN OldKey ELSE FreshKey(1)

VARIABLES
    pc,        \* position of each invocation in its function
    op,        \* "none", "Pair", "Ping" or "Devices"
    conn,      \* the TLS connection each invocation dialed
    priv,      \* Pair: the generated private key
    line,      \* the line most recently read by r.ReadString('\n')
    result,    \* what the invocation returned
    keyFile,   \* contents of the file at Client.ClientKeyPath
    certFile,  \* contents of the file at Client.ClientCertPath
    caFile,    \* contents of the file at Client.CACertPath
    seqNo,     \* Client.seqNo
    keysMade,  \* number of keys rsa.GenerateKey has returned
    sentTags,  \* the ClientTags of the requests transmitted so far
    before,    \* Pair: the three files as they were when the invocation began
    cmd,       \* a `tron zone` command line and the ZoneDim call it makes
    codec      \* a request envelope, its encoding and the decoding of that

vars == <<pc, op, conn, priv, line, result, keyFile, certFile, caFile, seqNo,
          keysMade, sentTags, before, cmd, codec>>

(* ------------------------- connections --------------------------------- *)

NoKey == <<"none">>

NoLine == <<"none">>

NoResult == <<"none">>

ResultNil == <<"nil">>

Err(cause) == <<"err", cause>>

\* state: "none" (not dialed), "open", "closed"
\* deadline: SetDeadline was applied;  expired: the deadline has passed
\* outErr: the error a failed Write left on the connection ("nil" if none)
\* out: what has been written to the connection, in order
NoConn == [state |-> "none", port |-> 0, deadline |-> FALSE, expired |-> FALSE,
           outErr |-> "nil", out |-> <<>>]

Dial(port) == [NoConn EXCEPT !.state = "open", !.port = port]

\* a return that leaves the connection as it is
DeferredClose_Skipped(c) == c

\* defer conn.Close()
DeferredClose(c) == [c EXCEPT !.state = IF c.state = "open" THEN "closed" ELSE c.state]

\* a connection that forgets the error of a failed write
WriteOutcomes_Forgetful(c) ==
    IF c.expired THEN {[err |-> "timeout", wrote |-> w] : w \in {"none", "partial"}}
    ELSE {[err |-> "nil", wrote |-> "full"]}
         \cup {[err |-> "reset", wrote |-> w] : w \in {"none", "partial"}}

\* The outcomes of conn.Write on c.  A write fails with the timeout error
\* once the deadline has passed; otherwise it completes or fails on the
\* transport.  A failed write may have transmitted a prefix of the data.
\* crypto/tls keeps the error of a failed write: later writes return it
\* without transmitting anything.
WriteOutcomes(c) ==
    IF c.outErr # "nil" THEN {[err |-> c.outErr, wrote |-> "none"]}
    ELSE IF c.expired THEN {[err |-> "timeout", wrote |-> w] : w \in {"none", "partial"}}
    ELSE {[err |-> "nil", wrote |-> "full"]}
         \cup {[err |-> "reset", wrote |-> w] : w \in {"none", "partial"}}

JsonItem(msg, full) == [kind |-> "json", msg |-> msg, full |-> full]

NewlineItem == [kind |-> "nl", msg |-> <<>>, full |-> TRUE]

\* conn.Write(msg) with outcome o
ConnWriteJson(c, msg, o) ==
    [c EXCEPT !.outErr = o.err,
              !.out = IF o.wrote = "none" THEN c.out
                      ELSE Append(c.out, JsonItem(msg, o.wrote = "full"))]

\* conn.Write([]byte("\n")) with outcome o: one byte, written or not
ConnWriteNewline(c, o) ==
    [c EXCEPT !.outErr = o.err,
              !.out = IF o.wrote = "full" THEN Append(c.out, NewlineItem) ELSE c.out]

\* a read that fails on a response of a class no request of the source asks for
ReadOutcomes_RejectsCreate(c, lines) ==
    IF c.expired THEN {[err |-> "timeout", line |-> NoLine]}
    ELSE {[err |-> IF Len(l) >= 3 /\ l[3] = "CreateResponse" THEN "class" ELSE "nil",
           line |-> l] : l \in lines}
         \cup {[err |-> "reset", line |-> NoLine]}

\* The outcomes of r.ReadString('\n') on c when the peer may send any of lines
ReadOutcomes(c, lines) ==
    IF c.expired THEN {[err |-> "timeout", line |-> NoLine]}
    ELSE {[err |-> "nil", line |-> l] : l \in lines}
         \cup {[err |-> "reset", line |-> NoLine]}

(* ------------------------------ files ---------------------------------- *)

Absent == <<"absent">>

Empty == <<"empty">>

Pem(x) == <<"pem", x>>

Partial(x) == <<"partial", x>>

\* os.OpenFile(path, O_CREATE|O_TRUNC|O_WRONLY): the file exists and is empty
Truncate(f) == Empty

\* os.WriteFile(path, data): "ok" writes data, "open" fails before the file
\* is touched, "write" fails after the file was truncated
WriteFileOutcomes == {"ok", "open", "write"}

FileData(s) == IF s = "" THEN Empty ELSE Pem(s)

WriteFile(f, s, o) == IF o = "ok" THEN FileData(s) ELSE IF o = "open" THEN f ELSE Empty

(* ------------------------ request envelopes ---------------------------- *)

RequestHeader(clientTag, requestType, url) ==
    [ClientTag |-> clientTag, RequestType |-> requestType, Url |-> url]

MarshalHeader_Swapped(h) ==
    << <<"Header.ClientTag", h.ClientTag>>,
       <<"Header.RequestType", h.Url>>,
       <<"Header.Url", h.RequestType>> >>

\* json.Marshal of a RequestHeader nested under the key Header: the fields in
\* declaration order, each as <<path, value>>; a zero field is written as ""
MarshalHeader(h) ==
    << <<"Header.ClientTag", h.ClientTag>>,
       <<"Header.RequestType", h.RequestType>>,
       <<"Header.Url", h.Url>> >>

\* x509.CreateCertificateRequest + pem.EncodeToMemory: the PEM type, the
\* subject common name and the key that signed the request
CertificateRequest(key) == <<"CERTIFICATE REQUEST", "tron", key>>

PairRequest(csr) ==
    [Body |-> [CommandType |-> "CSR",
               Parameters |-> [CSR |-> csr, DeviceUID |-> "000000000000",
                               DisplayName |-> "tron", Role |-> "Admin"]],
     Header |-> RequestHeader("pair", "Execute", "/pair")]

MarshalPairRequest(req) ==
    << <<"Body.CommandType", req.Body.CommandType>>,
       <<"Body.Parameters.CSR", req.Body.Parameters.CSR>>,
       <<"Body.Parameters.DeviceUID", req.Body.Parameters.DeviceUID>>,
       <<"Body.Parameters.DisplayName", req.Body.Parameters.DisplayName>>,
       <<"Body.Parameters.Role", req.Body.Parameters.Role>> >>
    \o MarshalHeader(req.Header)

(* -------------------------- pairing response --------------------------- *)

\* Lines the pairing peer may send in answer to the request: not JSON; the
\* objects {}, {"Body":{}} and one whose Certificate is a number; and objects
\* with Body.SigningResult holding any of Certificate and RootCertificate
PairLines ==
    {<<"garbage">>}
    \cup {<<"pair", s, "absent", "absent">> : s \in {"{}", "Body", "badtype"}}
    \cup {<<"pair", "SigningResult", c, r>> : c, r \in Certs \cup {"absent"}}

\* a decoder that takes each certificate from the other member
Unmarshal_Swapped(l) ==
    IF l[1] # "pair" THEN [err |-> "json", Certificate |-> "", RootCertificate |-> ""]
    ELSE [err |-> IF l[2] = "badtype" THEN "json" ELSE "nil",
          Certificate |-> IF l[4] = "absent" THEN "" ELSE l[4],
          RootCertificate |-> IF l[3] = "absent" THEN "" ELSE l[3]]

\* json.Unmarshal([]byte(line), &res) into PairResponse: a syntax or type
\* error is returned; a missing field leaves the zero value ""
Unmarshal(l) ==
    IF l[1] # "pair" THEN [err |-> "json", Certificate |-> "", RootCertificate |-> ""]
    ELSE [err |-> IF l[2] = "badtype" THEN "json" ELSE "nil",
          Certificate |-> IF l[3] = "absent" THEN "" ELSE l[3],
          RootCertificate |-> IF l[4] = "absent" THEN "" ELSE l[4]]

(* --------------------------- control flow ------------------------------ *)

\* the tags transmitted once a write of req with outcome o has been made
Sent(tags, req, o) == IF o.wrote = "none" THEN tags ELSE tags \cup {req.Header.ClientTag}

\* invocation i returns r; its deferred conn.Close() runs on connection c
Return(i, c, r) ==
    /\ pc' = [pc EXCEPT ![i] = "done"]
    /\ result' = [result EXCEPT ![i] = r]
    /\ conn' = [conn EXCEPT ![i] = DeferredClose(c)]

\* invocation i goes on to position p with connection c
Goto(i, c, p) ==
    /\ pc' = [pc EXCEPT ![i] = p]
    /\ result' = result
    /\ conn' = [conn EXCEPT ![i] = c]

\* an error check that returns one generic error for every cause
ReturnIfErr_Wrapped(i, c, err, p) ==
    IF err # "nil" THEN Return(i, c, Err("error")) ELSE Goto(i, c, p)

\* `if err != nil { return err }`, else go on to p
ReturnIfErr(i, c, err, p) ==
    IF err # "nil" THEN Return(i, c, Err(err)) ELSE Goto(i, c, p)

\* no snapshot of the files
NoFiles == <<>>

\* no command line is run
NoCmd == [build |-> "none", args |-> <<>>, call |-> <<"none">>]

\* no envelope is encoded
NoCodec == [at |-> "none", envelope |-> <<>>, encoded |-> <<>>, decoded |-> <<>>]

\* Invocations are made one after the other: thread i starts one when no
\* thread is inside an invocation
CanStart(i) == \A j \in Procs : pc[j] = "idle"

Init ==
    /\ pc = [i \in Procs |-> "idle"]
    /\ op = [i \in Procs |-> "none"]
    /\ conn = [i \in Procs |-> NoConn]
    /\ priv = [i \in Procs |-> NoKey]
    /\ line = [i \in Procs |-> NoLine]
    /\ result = [i \in Procs |-> NoResult]
    /\ \/ keyFile = Absent /\ certFile = Absent /\ caFile = Absent
       \/ keyFile = Pem(OldKey) /\ certFile = Pem("A") /\ caFile = Pem("B")
    /\ seqNo = 0
    /\ keysMade = 0
    /\ sentTags = {}
    /\ before = [i \in Procs |-> NoFiles]
    /\ cmd = NoCmd
    /\ codec = NoCodec

(* ------------------------------ Pair ----------------------------------- *)

\* a Pair that opens the key file before it dials
PairDial_OpensKeyFirst(i) ==
    /\ CanStart(i)
    /\ keysMade < MaxKeys
    /\ op' = [op EXCEPT ![i] = "Pair"]
    /\ before' = [before EXCEPT ![i] = <<keyFile, certFile, caFile>>]
    /\ keyFile' = Truncate(keyFile)
    /\ \E ok \in BOOLEAN :
         IF ok THEN Goto(i, Dial(pairingPort), "setDeadline")
         ELSE Return(i, conn[i], Err("dial"))
    /\ UNCHANGED <<priv, line, certFile, caFile, seqNo, keysMade,
                 sentTags, cmd, codec>>

\* loadPairingCertificate (the embedded pair always loads) and tls.Dial
PairDial(i) ==
    /\ CanStart(i)
    /\ keysMade < MaxKeys
    /\ op' = [op EXCEPT ![i] = "Pair"]
    /\ before' = [before EXCEPT ![i] = <<keyFile, certFile, caFile>>]
    /\ \E ok \in BOOLEAN :
         IF ok THEN Goto(i, Dial(pairingPort), "setDeadline")
         ELSE Return(i, conn[i], Err("dial"))
    /\ UNCHANGED <<priv, line, keyFile, certFile, caFile, seqNo, keysMade,
                 sentTags, cmd, codec>>

PairSetDeadline_NotSet(i) ==
    /\ pc[i] = "setDeadline"
    /\ \E err \in {"nil", "deadline"} : ReturnIfErr(i, conn[i], err, "generateKey")
    /\ UNCHANGED <<op, priv, line, keyFile, certFile, caFile, seqNo, keysMade,
                 sentTags, before, cmd, codec>>

\* conn.SetDeadline(time.Now().Add(2 * time.Minute))
PairSetDeadline(i) ==
    /\ pc[i] = "setDeadline"
    /\ \E err \in {"nil", "deadline"} :
         ReturnIfErr(i, [conn[i] EXCEPT !.deadline = (err = "nil")], err, "generateKey")
    /\ UNCHANGED <<op, priv, line, keyFile, certFile, caFile, seqNo, keysMade,
                 sentTags, before, cmd, codec>>

\* the deadline set on the connection passes
DeadlineExpires(i) ==
    /\ conn[i].state = "open"
    /\ conn[i].deadline
    /\ ~conn[i].expired
    /\ conn' = [conn EXCEPT ![i].expired = TRUE]
    /\ UNCHANGED <<pc, op, priv, line, result, keyFile, certFile, caFile,
                 seqNo, keysMade, sentTags, before, cmd, codec>>

\* a key generation that takes the key stored by an earlier attempt
PairGenerateKey_ReusesStored(i) ==
    /\ pc[i] = "generateKey"
    /\ \E err \in {"nil", "rand"} :
         /\ priv' = [priv EXCEPT ![i] = IF err # "nil" THEN NoKey
                                        ELSE IF keyFile[1] = "pem" THEN keyFile[2]
                                        ELSE FreshKey(keysMade + 1)]
         /\ keysMade' = IF err = "nil" THEN keysMade + 1 ELSE keysMade
         /\ ReturnIfErr(i, conn[i], err, "openKeyFile")
    /\ UNCHANGED <<op, line, keyFile, certFile, caFile, seqNo, sentTags,
                 before, cmd, codec>>

\* rsa.GenerateKey(rand.Reader, 2048)
PairGenerateKey(i) ==
    /\ pc[i] = "generateKey"
    /\ \E err \in {"nil", "rand"} :
         /\ priv' = [priv EXCEPT ![i] = IF err = "nil" THEN FreshKey(keysMade + 1) ELSE NoKey]
         /\ keysMade' = IF err = "nil" THEN keysMade + 1 ELSE keysMade
         /\ ReturnIfErr(i, conn[i], err, "openKeyFile")
    /\ UNCHANGED <<op, line, keyFile, certFile, caFile, seqNo, sentTags,
                 before, cmd, codec>>

\* os.OpenFile(c.ClientKeyPath, O_CREATE|O_TRUNC|O_WRONLY, 0600)
PairOpenKeyFile(i) ==
    /\ pc[i] = "openKeyFile"
    /\ \E err \in {"nil", "open"} :
         /\ keyFile' = IF err = "nil" THEN Truncate(keyFile) ELSE keyFile
         /\ ReturnIfErr(i, conn[i], err, "writeKey")
    /\ UNCHANGED <<op, priv, line, certFile, caFile, seqNo, keysMade, sentTags,
                 before, cmd, codec>>

\* a key write whose error is dropped
PairWriteKey_ErrDropped(i) ==
    /\ pc[i] = "writeKey"
    /\ \E f \in {Pem(priv[i]), Partial(priv[i]), keyFile} :
         /\ keyFile' = f
         /\ Goto(i, conn[i], "createCSR")
    /\ UNCHANGED <<op, priv, line, certFile, caFile, seqNo, keysMade, sentTags,
                 before, cmd, codec>>

\* pem.Encode(w, RSA PRIVATE KEY): a failure leaves none or part of the key
PairWriteKey(i) ==
    /\ pc[i] = "writeKey"
    /\ \E f \in {Pem(priv[i]), Partial(priv[i]), keyFile} :
         /\ keyFile' = f
         /\ ReturnIfErr(i, conn[i], IF f = Pem(priv[i]) THEN "nil" ELSE "write", "createCSR")
    /\ UNCHANGED <<op, priv, line, certFile, caFile, seqNo, keysMade, sentTags,
                 before, cmd, codec>>

PairCreateCSR_SkipsReady(i) ==
    /\ pc[i] = "createCSR"
    /\ \E err \in {"nil", "x509"} : ReturnIfErr(i, conn[i], err, "writeRequest")
    /\ UNCHANGED <<op, priv, line, keyFile, certFile, caFile, seqNo, keysMade,
                 sentTags, before, cmd, codec>>

\* x509.CreateCertificateRequest(rand.Reader, ..., priv)
PairCreateCSR(i) ==
    /\ pc[i] = "createCSR"
    /\ \E err \in {"nil", "x509"} : ReturnIfErr(i, conn[i], err, "readReady")
    /\ UNCHANGED <<op, priv, line, keyFile, certFile, caFile, seqNo, keysMade,
                 sentTags, before, cmd, codec>>

\* a read of the readiness line that dials again when it fails
PairReadReady_Redials(i) ==
    /\ pc[i] = "readReady"
    /\ \E o \in ReadOutcomes(conn[i], {<<"ready">>}) :
         /\ line' = [line EXCEPT ![i] = o.line]
         /\ IF o.err = "reset" THEN Goto(i, Dial(pairingPort), "setDeadline")
            ELSE ReturnIfErr(i, conn[i], o.err, "writeRequest")
    /\ UNCHANGED <<op, priv, keyFile, certFile, caFile, seqNo, keysMade,
                 sentTags, before, cmd, codec>>

\* the first r.ReadString('\n'): the line the peer sends unasked
PairReadReady(i) ==
    /\ pc[i] = "readReady"
    /\ \E o \in ReadOutcomes(conn[i], {<<"ready">>}) :
         /\ line' = [line EXCEPT ![i] = o.line]
         /\ ReturnIfErr(i, conn[i], o.err, "writeRequest")
    /\ UNCHANGED <<op, priv, keyFile, certFile, caFile, seqNo, keysMade,
                 sentTags, before, cmd, codec>>

\* json.Marshal(req) (cannot fail for this struct) and conn.Write(msg)
PairWriteRequest(i) ==
    /\ pc[i] = "writeRequest" /\ op[i] = "Pair"
    /\ \E o \in WriteOutcomes(conn[i]) :
         LET req == PairRequest(CertificateRequest(priv[i]))
         IN  /\ sentTags' = Sent(sentTags, req, o)
             /\ ReturnIfErr(i, ConnWriteJson(conn[i], MarshalPairRequest(req), o),
                             o.err, "writeNewline")
    /\ UNCHANGED <<op, priv, line, keyFile, certFile, caFile, seqNo, keysMade,
                 before, cmd, codec>>

\* conn.Write([]byte("\n"))
PairWriteNewline(i) ==
    /\ pc[i] = "writeNewline" /\ op[i] = "Pair"
    /\ \E o \in WriteOutcomes(conn[i]) :
         ReturnIfErr(i, ConnWriteNewline(conn[i], o), o.err, "readResponse")
    /\ UNCHANGED <<op, priv, line, keyFile, certFile, caFile, seqNo, keysMade,
                 sentTags, before, cmd, codec>>

PairReadResponse_RemovesKey(i) ==
    /\ pc[i] = "readResponse"
    /\ \E o \in ReadOutcomes(conn[i], PairLines) :
         /\ line' = [line EXCEPT ![i] = o.line]
         /\ keyFile' = IF o.err # "nil" \/ Unmarshal(o.line).err # "nil"
                       THEN Absent ELSE keyFile
         /\ IF o.err # "nil" THEN Return(i, conn[i], Err(o.err))
            ELSE ReturnIfErr(i, conn[i], Unmarshal(o.line).err, "writeCert")
    /\ UNCHANGED <<op, priv, certFile, caFile, seqNo, keysMade,
                 sentTags, before, cmd, codec>>

\* the second r.ReadString('\n') and json.Unmarshal of the line
PairReadResponse(i) ==
    /\ pc[i] = "readResponse"
    /\ \E o \in ReadOutcomes(conn[i], PairLines) :
         /\ line' = [line EXCEPT ![i] = o.line]
         /\ IF o.err # "nil" THEN Return(i, conn[i], Err(o.err))
            ELSE ReturnIfErr(i, conn[i], Unmarshal(o.line).err, "writeCert")
    /\ UNCHANGED <<op, priv, keyFile, certFile, caFile, seqNo, keysMade,
                 sentTags, before, cmd, codec>>

\* os.WriteFile(c.ClientCertPath, res.Body.SigningResult.Certificate, 0644)
PairWriteCert(i) ==
    /\ pc[i] = "writeCert"
    /\ \E o \in WriteFileOutcomes :
         /\ certFile' = WriteFile(certFile, Unmarshal(line[i]).Certificate, o)
         /\ ReturnIfErr(i, conn[i], IF o = "ok" THEN "nil" ELSE "writefile", "writeCA")
    /\ UNCHANGED <<op, priv, line, keyFile, caFile, seqNo, keysMade, sentTags,
                 before, cmd, codec>>

\* os.WriteFile(c.CACertPath, res.Body.SigningResult.RootCertificate, 0644)
\* and `return nil`
PairWriteCA(i) ==
    /\ pc[i] = "writeCA"
    /\ \E o \in WriteFileOutcomes :
         /\ caFile' = WriteFile(caFile, Unmarshal(line[i]).RootCertificate, o)
         /\ Return(i, conn[i], IF o = "ok" THEN ResultNil ELSE Err("writefile"))
    /\ UNCHANGED <<op, priv, line, keyFile, certFile, seqNo, keysMade,
                 sentTags, before, cmd, codec>>

Pair(i) ==
    \/ PairDial(i)
    \/ PairSetDeadline(i)
    \/ PairGenerateKey(i)
    \/ PairOpenKeyFile(i)
    \/ PairWriteKey(i)
    \/ PairCreateCSR(i)
    \/ PairReadReady(i)
    \/ PairWriteRequest(i)
    \/ PairWriteNewline(i)
    \/ PairReadResponse(i)
    \/ PairWriteCert(i)
    \/ PairWriteCA(i)

(* ------------------------- Ping and Devices ---------------------------- *)

\* os.ReadFile of the certificate and of the key, then tls.X509KeyPair: the
\* error returned ("nil" when the pair loads)
loadClientCertificate(cert, key) ==
    IF cert = Absent THEN "readfile"
    ELSE IF key = Absent THEN "readfile"
    ELSE IF /\ cert[1] = "pem"
            /\ cert[2] \in Certs
            /\ key[1] = "pem"
            /\ IssuedTo(cert[2]) = key[2]
         THEN "nil"
         ELSE "keypair"

PingRequest(clientTag, url) ==
    [CommuniqueType |-> "ReadRequest", Header |-> RequestHeader(clientTag, "", url)]

MarshalPingRequest(req) ==
    << <<"CommuniqueType", req.CommuniqueType>> >> \o MarshalHeader(req.Header)

\* the request Ping builds
PingReq == PingRequest("ping-1", "/server/1/status/ping")

\* the request Devices builds: its Header sets Url only
DevicesReq == PingRequest("", "/device")

Tags == {"ping-1", "", "B"}

Classes == {"ReadResponse", "CreateResponse", "ExceptionResponse"}

Statuses == {"200 OK", "400 BadRequest"}

Bodies == {"X", "Y"}

\* Lines the control peer may send: not a response envelope, or an envelope
\* with any tag, class, status and body (for an exception the body is its
\* Message)
CallLines ==
    {<<"garbage">>}
    \cup {<<"resp", t, c, s, b>> : t \in Tags, c \in Classes, s \in Statuses, b \in Bodies}

PingLoadClientCertificate(i) ==
    /\ CanStart(i)
    /\ op' = [op EXCEPT ![i] = "Ping"]
    /\ ReturnIfErr(i, conn[i], loadClientCertificate(certFile, keyFile), "dial")
    /\ UNCHANGED <<priv, line, keyFile, certFile, caFile, seqNo, keysMade,
                 sentTags, before, cmd, codec>>

\* a Dial that keeps the connection in the Client, where every thread uses it
PingDial_SharedConn(i) ==
    /\ pc[i] = "dial" /\ op[i] = "Ping"
    /\ \E ok \in BOOLEAN :
         IF ok
         THEN /\ pc' = [pc EXCEPT ![i] = "writeRequest"]
              /\ result' = result
              /\ conn' = [j \in Procs |-> IF j = i \/ conn[j].state = "open"
                                          THEN Dial(controlPort) ELSE conn[j]]
         ELSE Return(i, conn[i], Err("dial"))
    /\ UNCHANGED <<op, priv, line, keyFile, certFile, caFile, seqNo, keysMade,
                 sentTags, before, cmd, codec>>

PingDial(i) ==
    /\ pc[i] = "dial" /\ op[i] = "Ping"
    /\ \E ok \in BOOLEAN :
         IF ok THEN Goto(i, Dial(controlPort), "writeRequest")
         ELSE Return(i, conn[i], Err("dial"))
    /\ UNCHANGED <<op, priv, line, keyFile, certFile, caFile, seqNo, keysMade,
                 sentTags, before, cmd, codec>>

\* json.Marshal(req) and conn.Write(json); what Write returns is dropped
PingWriteRequest(i) ==
    /\ pc[i] = "writeRequest" /\ op[i] = "Ping"
    /\ \E o \in WriteOutcomes(conn[i]) :
         /\ sentTags' = Sent(sentTags, PingReq, o)
         /\ Goto(i, ConnWriteJson(conn[i], MarshalPingRequest(PingReq), o), "writeNewline")
    /\ UNCHANGED <<op, priv, line, keyFile, certFile, caFile, seqNo, keysMade,
                 before, cmd, codec>>

\* conn.Write([]byte("\n")); what Write returns is dropped
PingWriteNewline(i) ==
    /\ pc[i] = "writeNewline" /\ op[i] = "Ping"
    /\ \E o \in WriteOutcomes(conn[i]) :
         Goto(i, ConnWriteNewline(conn[i], o), "read")
    /\ UNCHANGED <<op, priv, line, keyFile, certFile, caFile, seqNo, keysMade,
                 sentTags, before, cmd, codec>>

\* a read loop that returns at the first line it reads, whatever its tag
PingReadLine_ReturnsOnLine(i) ==
    /\ pc[i] = "read" /\ op[i] = "Ping"
    /\ \E o \in ReadOutcomes(conn[i], CallLines) :
         /\ line' = [line EXCEPT ![i] = o.line]
         /\ Return(i, conn[i], IF o.err # "nil" THEN Err(o.err) ELSE ResultNil)
    /\ UNCHANGED <<op, priv, keyFile, certFile, caFile, seqNo, keysMade,
                 sentTags, before, cmd, codec>>

\* one iteration of `for { line, err := r.ReadString('\n') ... }`: a read
\* error is returned, a line is printed when Verbose and the loop goes on
PingReadLine(i) ==
    /\ pc[i] = "read" /\ op[i] = "Ping"
    /\ \E o \in ReadOutcomes(conn[i], CallLines) :
         /\ line' = [line EXCEPT ![i] = o.line]
         /\ ReturnIfErr(i, conn[i], o.err, "read")
    /\ UNCHANGED <<op, priv, keyFile, certFile, caFile, seqNo, keysMade,
                 sentTags, before, cmd, codec>>

Ping(i) ==
    \/ PingLoadClientCertificate(i)
    \/ PingDial(i)
    \/ PingWriteRequest(i)
    \/ PingWriteNewline(i)
    \/ PingReadLine(i)

\* a Devices that dials before it looks at the error of the load
DevicesLoadClientCertificate_DialsFirst(i) ==
    /\ CanStart(i)
    /\ op' = [op EXCEPT ![i] = "Devices"]
    /\ ReturnIfErr(i, Dial(controlPort), loadClientCertificate(certFile, keyFile), "writeRequest")
    /\ UNCHANGED <<priv, line, keyFile, certFile, caFile, seqNo, keysMade,
                 sentTags, before, cmd, codec>>

DevicesLoadClientCertificate(i) ==
    /\ CanStart(i)
    /\ op' = [op EXCEPT ![i] = "Devices"]
    /\ ReturnIfErr(i, conn[i], loadClientCertificate(certFile, keyFile), "dial")
    /\ UNCHANGED <<priv, line, keyFile, certFile, caFile, seqNo, keysMade,
                 sentTags, before, cmd, codec>>

DevicesDial(i) ==
    /\ pc[i] = "dial" /\ op[i] = "Devices"
    /\ \E ok \in BOOLEAN :
         IF ok THEN Goto(i, Dial(controlPort), "writeRequest")
         ELSE Return(i, conn[i], Err("dial"))
    /\ UNCHANGED <<op, priv, line, keyFile, certFile, caFile, seqNo, keysMade,
                 sentTags, before, cmd, codec>>

\* json.Marshal(req) and conn.Write(json); what Write returns is dropped
DevicesWriteRequest(i) ==
    /\ pc[i] = "writeRequest" /\ op[i] = "Devices"
    /\ \E o \in WriteOutcomes(conn[i]) :
         /\ sentTags' = Sent(sentTags, DevicesReq, o)
         /\ Goto(i, ConnWriteJson(conn[i], MarshalPingRequest(DevicesReq), o), "writeNewline")
    /\ UNCHANGED <<op, priv, line, keyFile, certFile, caFile, seqNo, keysMade,
                 before, cmd, codec>>

\* conn.Write([]byte("\n")); what Write returns is dropped
DevicesWriteNewline(i) ==
    /\ pc[i] = "writeNewline" /\ op[i] = "Devices"
    /\ \E o \in WriteOutcomes(conn[i]) :
         Goto(i, ConnWriteNewline(conn[i], o), "read")
    /\ UNCHANGED <<op, priv, line, keyFile, certFile, caFile, seqNo, keysMade,
                 sentTags, before, cmd, codec>>

DevicesReadLine_ReturnsResult(i) ==
    /\ pc[i] = "read" /\ op[i] = "Devices"
    /\ \E o \in ReadOutcomes(conn[i], CallLines) :
         /\ line' = [line EXCEPT ![i] = o.line]
         /\ IF o.err = "nil" /\ o.line[1] = "resp"
            THEN Return(i, conn[i], <<"ok", o.line[5]>>)
            ELSE ReturnIfErr(i, conn[i], o.err, "read")
    /\ UNCHANGED <<op, priv, keyFile, certFile, caFile, seqNo, keysMade,
                 sentTags, before, cmd, codec>>

\* one iteration of the read loop: a read error is returned as ("", err),
\* a line is printed when Verbose and the loop goes on
DevicesReadLine(i) ==
    /\ pc[i] = "read" /\ op[i] = "Devices"
    /\ \E o \in ReadOutcomes(conn[i], CallLines) :
         /\ line' = [line EXCEPT ![i] = o.line]
         /\ ReturnIfErr(i, conn[i], o.err, "read")
    /\ UNCHANGED <<op, priv, keyFile, certFile, caFile, seqNo, keysMade,
                 sentTags, before, cmd, codec>>

Devices(i) ==
    \/ DevicesLoadClientCertificate(i)
    \/ DevicesDial(i)
    \/ DevicesWriteRequest(i)
    \/ DevicesWriteNewline(i)
    \/ DevicesReadLine(i)

(* --------------------------- specification ----------------------------- *)

\* the caller has the result of the invocation; its locals are gone
Finish(i) ==
    /\ pc[i] = "done"
    /\ pc' = [pc EXCEPT ![i] = "idle"]
    /\ op' = [op EXCEPT ![i] = "none"]
    /\ conn' = [conn EXCEPT ![i] = NoConn]
    /\ priv' = [priv EXCEPT ![i] = NoKey]
    /\ line' = [line EXCEPT ![i] = NoLine]
    /\ result' = [result EXCEPT ![i] = NoResult]
    /\ before' = [before EXCEPT ![i] = NoFiles]
    /\ UNCHANGED <<keyFile, certFile, caFile, seqNo, keysMade, sentTags, cmd, codec>>

Next ==
    \E i \in Procs :
       \/ Pair(i)
       \/ Ping(i)
       \/ Devices(i)
       \/ DeadlineExpires(i)
       \/ Finish(i)

Spec == Init /\ [][Next]_vars

(* --------------------------- tron zone --------------------------------- *)

\* the two copies of doZoneCommand in the source tree
Builds == {"main.go", "client.go"}

\* the words a command line is made of
Words == {"12", "50", "2s"}

ZoneCommands == {"dim", "on", "off"}

\* the arguments handed to doZoneCommand: the command and up to MaxArgs words
ZoneArgs ==
    {<<c>> \o w : c \in ZoneCommands, w \in UNION {[1..n -> Words] : n \in 0..MaxArgs}}

\* args[k] of the Go slice, which counts from 0
Arg(args, k) == args[k + 1]

\* strconv.Atoi
Atoi(s) ==
    IF s = "12" THEN [err |-> "nil", n |-> 12]
    ELSE IF s = "50" THEN [err |-> "nil", n |-> 50]
    ELSE [err |-> "syntax", n |-> 0]

DimOptions(level) == [Level |-> level, Duration |-> "", Delay |-> ""]

\* client.ZoneDim(id, options) is called
ZoneDim(id, options) == <<"ZoneDim", id, options>>

\* usage() prints the usage lines and exits
Usage == <<"usage">>

\* os.Exit(1) after "error: invalid level"
InvalidLevel == <<"exit", "invalid level">>

\* case "on" and case "off": the same in both copies
doZoneCommandLevel(args, level) ==
    IF Len(args) < 2 THEN Usage
    ELSE LET o1 == DimOptions(level)
             o2 == IF Len(args) >= 3 THEN [o1 EXCEPT !.Duration = Arg(args, 2)] ELSE o1
             o3 == IF Len(args) >= 4 THEN [o2 EXCEPT !.Delay = Arg(args, 3)] ELSE o2
         IN  ZoneDim(Arg(args, 1), o3)

\* case "dim" of the copy in main.go
doZoneCommandDim(args) ==
    IF Len(args) < 3 THEN Usage
    ELSE IF Atoi(Arg(args, 2)).err # "nil" THEN InvalidLevel
    ELSE LET o1 == DimOptions(Atoi(Arg(args, 2)).n)
             o2 == IF Len(args) >= 4 THEN [o1 EXCEPT !.Duration = Arg(args, 3)] ELSE o1
             o3 == IF Len(args) >= 5 THEN [o2 EXCEPT !.Delay = Arg(args, 4)] ELSE o2
         IN  ZoneDim(Arg(args, 1), o3)

\* case "dim" of the copy in client.go
doZoneCommandDim_client(args) ==
    IF Len(args) < 3 THEN Usage
    ELSE IF Atoi(Arg(args, 2)).err # "nil" THEN InvalidLevel
    ELSE LET o1 == DimOptions(Atoi(Arg(args, 2)).n)
             o2 == IF Len(args) >= 3 THEN [o1 EXCEPT !.Duration = Arg(args, 2)] ELSE o1
             o3 == IF Len(args) >= 4 THEN [o2 EXCEPT !.Delay = Arg(args, 3)] ELSE o2
         IN  ZoneDim(Arg(args, 1), o3)

\* the switch on args[0]
doZoneCommand(build, args) ==
    IF Arg(args, 0) = "dim"
    THEN IF build = "main.go" THEN doZoneCommandDim(args) ELSE doZoneCommandDim_client(args)
    ELSE IF Arg(args, 0) = "on" THEN doZoneCommandLevel(args, 100)
    ELSE IF Arg(args, 0) = "off" THEN doZoneCommandLevel(args, 0)
    ELSE Usage

\* `tron zone <args>` is run with the build of main.go
RunZoneCommand ==
    /\ cmd.build = "main.go"
    /\ cmd.call = <<"none">>
    /\ cmd' = [cmd EXCEPT !.call = doZoneCommand(cmd.build, cmd.args)]
    /\ UNCHANGED <<pc, op, conn, priv, line, result, keyFile, certFile, caFile,
                 seqNo, keysMade, sentTags, before, codec>>

\* `tron zone <args>` is run with the build of the copy in client.go
RunZoneCommand_client ==
    /\ cmd.build = "client.go"
    /\ cmd.call = <<"none">>
    /\ cmd' = [cmd EXCEPT !.call = doZoneCommand(cmd.build, cmd.args)]
    /\ UNCHANGED <<pc, op, conn, priv, line, result, keyFile, certFile, caFile,
                 seqNo, keysMade, sentTags, before, codec>>

\* the client is at rest and paired
AtRest ==
    /\ pc = [i \in Procs |-> "idle"]
    /\ op = [i \in Procs |-> "none"]
    /\ conn = [i \in Procs |-> NoConn]
    /\ priv = [i \in Procs |-> NoKey]
    /\ line = [i \in Procs |-> NoLine]
    /\ result = [i \in Procs |-> NoResult]
    /\ keyFile = Pem(OldKey) /\ certFile = Pem("A") /\ caFile = Pem("B")
    /\ seqNo = 0
    /\ keysMade = 0
    /\ sentTags = {}
    /\ before = [i \in Procs |-> NoFiles]

InitZone ==
    /\ AtRest
    /\ cmd \in [build : Builds, args : ZoneArgs, call : {<<"none">>}]
    /\ codec = NoCodec

NextZone == RunZoneCommand \/ RunZoneCommand_client

SpecZone == InitZone /\ [][NextZone]_vars

(* ------------------------------ claims --------------------------------- *)

Calls == {"Ping", "Devices"}

\* the value a decoder finds under path key in the JSON object msg ("" when
\* the object has no such member)
JsonField(msg, key) ==
    LET S == {k \in 1..Len(msg) : msg[k][1] = key}
    IN  IF S = {} THEN "" ELSE msg[CHOOSE k \in S : TRUE][2]

\* the ClientTag of the request invocation i sends
OwnTag(i) == IF op[i] = "Ping" THEN PingReq.Header.ClientTag ELSE DevicesReq.Header.ClientTag

\* invocation i, in its read loop, takes a step that reads a response envelope
ReadsResponse(i) ==
    /\ op[i] \in Calls
    /\ pc[i] = "read"
    /\ vars' # vars
    /\ line'[i][1] = "resp"

\* C1: a Call that reads a response line with its own tag, the success class
\* of a read and the status "200 OK" returns with the Body of that line.
C1_SuccessReturnsBody ==
    [][\A i \in Procs :
         (/\ ReadsResponse(i)
          /\ line'[i][2] = OwnTag(i)
          /\ line'[i][3] = "ReadResponse"
          /\ line'[i][4] = "200 OK")
         => (pc'[i] = "done" /\ result'[i] = <<"ok", line'[i][5]>>)]_vars

\* C2: a response line whose tag differs from the tag of the request does
\* not end the read loop and is not returned: after it the Call is still
\* reading, with nothing returned and its connection open.
C2_ForeignTagKeepsReading ==
    [][\A i \in Procs :
         (ReadsResponse(i) /\ line'[i][2] # OwnTag(i))
         => (pc'[i] = "read" /\ result'[i] = NoResult /\ conn'[i].state = "open")]_vars

C2_Witness ==
    \E i \in Procs :
       /\ op[i] \in Calls
       /\ pc[i] = "read"
       /\ line[i][1] = "resp"
       /\ line[i][2] # OwnTag(i)
       /\ result[i] = NoResult

\* C3: a Call that reads a response line with its own tag and the exception
\* class fails with a RemoteException carrying the status code and the
\* message of that line.
C3_ExceptionFailsCall ==
    [][\A i \in Procs :
         (/\ ReadsResponse(i)
          /\ line'[i][2] = OwnTag(i)
          /\ line'[i][3] = "ExceptionResponse")
         => (/\ pc'[i] = "done"
             /\ result'[i] = <<"err", "RemoteException", line'[i][4], line'[i][5]>>)]_vars

\* C4: the ClientTag of every request a Call transmits is non-empty and
\* differs from the ClientTag of every request transmitted before it.
C4_FreshTagPerCall ==
    [][\A i \in Procs :
         (/\ op[i] \in Calls
          /\ pc[i] = "writeRequest"
          /\ Len(conn'[i].out) > Len(conn[i].out))
         => LET tag == JsonField(conn'[i].out[Len(conn'[i].out)].msg, "Header.ClientTag")
            IN  tag # "" /\ tag \notin sentTags]_vars

\* C5: whenever anything of the pairing request has been written to the
\* connection, the file at ClientKeyPath holds the complete PEM of the key
\* that signed the CSR in that request (so a failed key write sends nothing).
C5_KeyStoredBeforeCsrSent ==
    \A i \in Procs :
       (op[i] = "Pair" /\ conn[i].out # <<>>)
       => (/\ JsonField(conn[i].out[1].msg, "Body.Parameters.CSR") = CertificateRequest(priv[i])
           /\ keyFile = Pem(priv[i]))

C5_Witness ==
    \E i \in Procs :
       /\ op[i] = "Pair"
       /\ pc[i] = "readResponse"
       /\ Len(conn[i].out) = 2
       /\ keyFile = Pem(priv[i])

\* the line has the pairing-response shape, with both certificates
Conforming(l) ==
    /\ l[1] = "pair"
    /\ l[2] = "SigningResult"
    /\ l[3] \in Certs
    /\ l[4] \in Certs

\* Pair invocation i has read the line that answers its request
ReadAnswer(i) == op[i] = "Pair" /\ line[i] \in PairLines

\* C6: once Pair has read an answer that lacks the pairing-response shape,
\* Pair has failed with the error of decoding that line.
C6_InvalidResponseFails ==
    \A i \in Procs :
       (ReadAnswer(i) /\ ~Conforming(line[i]))
       => (pc[i] = "done" /\ result[i] = Err("json"))

\* C7 as stated: once Pair has read an answer holding Certificate A and
\* RootCertificate B and has returned, it returned success with A stored at
\* ClientCertPath and B stored at CACertPath.
C7_Original ==
    \A i \in Procs :
       (ReadAnswer(i) /\ Conforming(line[i]) /\ pc[i] = "done")
       => (/\ result[i] = ResultNil
           /\ certFile = Pem(line[i][3])
           /\ caFile = Pem(line[i][4]))

\* C7 amended: once Pair has read an answer holding Certificate A and
\* RootCertificate B, it writes A to ClientCertPath and then B to CACertPath;
\* it returns success only with exactly A and B stored, and any other return
\* is the error of a failed file write.
C7_CertificatesStored ==
    \A i \in Procs :
       (ReadAnswer(i) /\ Conforming(line[i]))
       => (/\ pc[i] \in {"writeCert", "writeCA", "done"}
           /\ pc[i] = "writeCA" => certFile = Pem(line[i][3])
           /\ pc[i] = "done" =>
                \/ /\ result[i] = ResultNil
                   /\ certFile = Pem(line[i][3])
                   /\ caFile = Pem(line[i][4])
                \/ result[i] = Err("writefile"))

C7_Witness ==
    \E i \in Procs :
       /\ ReadAnswer(i)
       /\ Conforming(line[i])
       /\ line[i][3] # line[i][4]
       /\ pc[i] = "done"
       /\ result[i] = ResultNil

\* positions of Pair at which it reads from or writes to the connection
PairIO == {"readReady", "writeRequest", "writeNewline", "readResponse"}

\* C8: a read or write Pair makes after the deadline has passed ends Pair
\* with the timeout error, and Pair returns the timeout error from a read or
\* write only when the deadline has passed: a transport failure or an
\* undecodable line gives a different error.
C8_TimeoutDistinct ==
    [][\A i \in Procs :
         (op[i] = "Pair" /\ pc[i] \in PairIO /\ pc'[i] # pc[i])
         => (/\ conn[i].expired => (pc'[i] = "done" /\ result'[i] = Err("timeout"))
             /\ result'[i] = Err("timeout") => conn[i].expired)]_vars

C8_Witness ==
    \E i \in Procs :
       /\ op[i] = "Pair"
       /\ pc[i] = "done"
       /\ conn[i].expired
       /\ Len(conn[i].out) = 2
       /\ result[i] = Err("timeout")

\* the port an operation dials
PortOf(o) == IF o = "Pair" THEN pairingPort ELSE controlPort

\* C9: when Pair, Ping or Devices has returned, the connection it dialed is
\* closed, whatever it returned; it is the one connection the invocation
\* used, dialed to the port of the operation.
C9_ConnectionClosedOnReturn ==
    \A i \in Procs :
       /\ pc[i] = "done" => conn[i].state \in {"none", "closed"}
       /\ conn[i].state # "none" => conn[i].port = PortOf(op[i])
       /\ conn[i].out # <<>> => conn[i].state # "none"

C9_Witness ==
    \E i \in Procs :
       /\ pc[i] = "done"
       /\ conn[i].state = "closed"
       /\ result[i][1] = "err"
       /\ conn[i].out # <<>>

\* C10: when a write of the request or of its newline fails in a Call, the
\* Call returns an error and reads nothing.
C10_WriteFailureEndsCall ==
    [][\A i \in Procs :
         (/\ op[i] \in Calls
          /\ pc[i] \in {"writeRequest", "writeNewline"}
          /\ pc'[i] # pc[i]
          /\ conn'[i].outErr # "nil")
         => (pc'[i] = "done" /\ result'[i] = Err(conn'[i].outErr))]_vars

\* C11: a Call that reads a response line with its own tag and the success
\* class of a read but a status other than "200 OK" fails with
\* UnexpectedStatus carrying that status, and returns no body.
C11_UnexpectedStatusFailsCall ==
    [][\A i \in Procs :
         (/\ ReadsResponse(i)
          /\ line'[i][2] = OwnTag(i)
          /\ line'[i][3] = "ReadResponse"
          /\ line'[i][4] # "200 OK")
         => (/\ pc'[i] = "done"
             /\ result'[i] = <<"err", "UnexpectedStatus", line'[i][4]>>)]_vars

\* C12: the read loop of a Call stops at a response line that carries the
\* tag of the call, of the success class or of the exception class: the
\* step that reads such a line is the step at which the Call returns.
C12_OwnTagEndsReadLoop ==
    [][\A i \in Procs :
         (/\ ReadsResponse(i)
          /\ line'[i][2] = OwnTag(i)
          /\ line'[i][3] \in {"ReadResponse", "ExceptionResponse"})
         => (pc'[i] = "done" /\ conn'[i].state = "closed")]_vars

\* positions of Pair between the write of the key file and the decoding of
\* the response
PairKeyStored == {"createCSR", "readReady", "writeRequest", "writeNewline", "readResponse"}

\* the errors with which Pair returns from one of those positions
PairKeyStoredErrs == {"x509", "reset", "timeout", "json"}

\* C14: from the write of the generated key to ClientKeyPath until the
\* response is decoded, and when Pair has returned with a failure of one of
\* the steps in between, the key file holds the generated key.
C14_KeyKeptOnFailure ==
    \A i \in Procs :
       (/\ op[i] = "Pair"
        /\ \/ pc[i] \in PairKeyStored
           \/ pc[i] = "done" /\ result[i][1] = "err" /\ result[i][2] \in PairKeyStoredErrs)
       => keyFile = Pem(priv[i])

C14_Witness ==
    \E i \in Procs :
       /\ op[i] = "Pair"
       /\ pc[i] = "done"
       /\ result[i] = Err("json")
       /\ priv[i] # NoKey
       /\ keyFile = Pem(priv[i])
       /\ before[i][1] # keyFile

\* C15: a step of Pair that puts bytes on the connection is taken after the
\* readiness line has been read, and a failed read of the readiness line
\* ends Pair with nothing sent.
C15_ReadyBeforeSend ==
    [][\A i \in Procs :
         /\ (op[i] = "Pair" /\ conn'[i].out # conn[i].out /\ conn'[i].out # <<>>)
            => (line[i] = <<"ready">> /\ pc[i] \in {"writeRequest", "writeNewline"})
         /\ (op[i] = "Pair" /\ pc[i] = "readReady" /\ line'[i] # <<"ready">>)
            => (pc'[i] \in {"readReady", "done"} /\ conn'[i].out = <<>>)]_vars

C15_Witness ==
    \E i \in Procs :
       /\ op[i] = "Pair"
       /\ pc[i] = "writeNewline"
       /\ line[i] = <<"ready">>
       /\ Len(conn[i].out) = 1
       /\ conn[i].out[1].full

SamePairing(key, cert) == loadClientCertificate(cert, key) = "nil"

\* C18: whenever Pair has returned, with success or with an error, and the
\* key file and the certificate file belonged to one pairing when Pair
\* began, they belong to one pairing.
C18_IdentityConsistent ==
    \A i \in Procs :
       (/\ op[i] = "Pair"
        /\ pc[i] = "done"
        /\ SamePairing(before[i][1], before[i][2]))
       => SamePairing(keyFile, certFile)

\* C19: when Pair has returned an error, the certificate file and the CA
\* certificate file hold what they held when Pair began.
C19_CertFilesKeptOnError ==
    \A i \in Procs :
       (op[i] = "Pair" /\ pc[i] = "done" /\ result[i][1] = "err")
       => (certFile = before[i][2] /\ caFile = before[i][3])

\* the `tron zone dim` command line was run with a level that parses
DimWasRun ==
    /\ cmd.call # <<"none">>
    /\ Arg(cmd.args, 0) = "dim"
    /\ Len(cmd.args) >= 3
    /\ Atoi(Arg(cmd.args, 2)).err = "nil"

\* C16: `tron zone dim <id> <level> [duration] [delay]` calls ZoneDim on zone
\* <id> with Level = <level>, Duration = the word after <level> when there
\* is one and Delay = the word after that when there is one, both empty
\* otherwise.
C16_DimArguments ==
    DimWasRun =>
       cmd.call = ZoneDim(Arg(cmd.args, 1),
                          [Level |-> Atoi(Arg(cmd.args, 2)).n,
                           Duration |-> IF Len(cmd.args) >= 4 THEN Arg(cmd.args, 3) ELSE "",
                           Delay |-> IF Len(cmd.args) >= 5 THEN Arg(cmd.args, 4) ELSE ""])

(* ------------------------ envelope round trip -------------------------- *)

\* json.Unmarshal into a RequestHeader: each field from the member of its
\* name, the zero value when there is none
UnmarshalHeader(msg) ==
    RequestHeader(JsonField(msg, "Header.ClientTag"),
                  JsonField(msg, "Header.RequestType"),
                  JsonField(msg, "Header.Url"))

\* json.Unmarshal into a PingRequest
UnmarshalPingRequest(msg) ==
    [CommuniqueType |-> JsonField(msg, "CommuniqueType"), Header |-> UnmarshalHeader(msg)]

\* json.Unmarshal into a PairRequest
UnmarshalPairRequest(msg) ==
    [Body |-> [CommandType |-> JsonField(msg, "Body.CommandType"),
               Parameters |-> [CSR |-> JsonField(msg, "Body.Parameters.CSR"),
                               DeviceUID |-> JsonField(msg, "Body.Parameters.DeviceUID"),
                               DisplayName |-> JsonField(msg, "Body.Parameters.DisplayName"),
                               Role |-> JsonField(msg, "Body.Parameters.Role")]],
     Header |-> UnmarshalHeader(msg)]

\* the envelope has a Body: it is a PairRequest, else a PingRequest
HasBody(e) == "Body" \in DOMAIN e

Marshal(e) == IF HasBody(e) THEN MarshalPairRequest(e) ELSE MarshalPingRequest(e)

\* the values the fields of a request take
CommuniqueTypes == {"ReadRequest", "CreateRequest"}

RequestTypes == {"", "Execute"}

Urls == {"/pair", "/device", "/server/1/status/ping"}

Headers == {RequestHeader(t, rt, u) : t \in Tags, rt \in RequestTypes, u \in Urls}

Envelopes ==
    {[CommuniqueType |-> ct, Header |-> h] : ct \in CommuniqueTypes, h \in Headers}
    \cup {[PairRequest(CertificateRequest(k)) EXCEPT !.Header = h] :
             k \in {OldKey, FreshKey(1)}, h \in Headers}

\* json.Marshal(req)
Encode ==
    /\ codec.at = "built"
    /\ codec' = [codec EXCEPT !.at = "encoded", !.encoded = Marshal(codec.envelope)]
    /\ UNCHANGED <<pc, op, conn, priv, line, result, keyFile, certFile, caFile,
                 seqNo, keysMade, sentTags, before, cmd>>

\* the members of the encoded object are put in another order
Reorder ==
    /\ codec.at = "encoded"
    /\ codec' = [codec EXCEPT !.encoded = Append(Tail(codec.encoded), Head(codec.encoded))]
    /\ UNCHANGED <<pc, op, conn, priv, line, result, keyFile, certFile, caFile,
                 seqNo, keysMade, sentTags, before, cmd>>

\* json.Unmarshal of the encoded object into a value of the envelope's type
Decode ==
    /\ codec.at = "encoded"
    /\ codec' = [codec EXCEPT !.at = "decoded",
                              !.decoded = IF HasBody(codec.envelope)
                                          THEN UnmarshalPairRequest(codec.encoded)
                                          ELSE UnmarshalPingRequest(codec.encoded)]
    /\ UNCHANGED <<pc, op, conn, priv, line, result, keyFile, certFile, caFile,
                 seqNo, keysMade, sentTags, before, cmd>>

InitCodec ==
    /\ AtRest
    /\ cmd = NoCmd
    /\ codec \in [at : {"built"}, envelope : Envelopes, encoded : {<<>>}, decoded : {<<>>}]

NextCodec == Encode \/ Reorder \/ Decode

SpecCodec == InitCodec /\ [][NextCodec]_vars

ConcurrentLines ==
    {<<"garbage">>,
     <<"resp", "ping-1", "ReadResponse", "200 OK", "X">>,
     <<"resp", "", "ReadResponse", "200 OK", "Y">>,
     <<"resp", "B", "ExceptionResponse", "400 BadRequest", "X">>}

\* thread i calls o while other threads may be inside their calls
StartConcurrent(i, o) ==
    /\ pc[i] = "idle"
    /\ op' = [op EXCEPT ![i] = o]
    /\ ReturnIfErr(i, conn[i], loadClientCertificate(certFile, keyFile), "dial")
    /\ UNCHANGED <<priv, line, keyFile, certFile, caFile, seqNo, keysMade,
                 sentTags, before, cmd, codec>>

NextConcurrent ==
    \E i \in Procs :
       \/ \E o \in Calls : StartConcurrent(i, o)
       \/ PingLoadClientCertificate(i)
       \/ PingDial(i)
       \/ PingWriteRequest(i)
       \/ PingWriteNewline(i)
       \/ PingReadLine(i) /\ line'[i] \in ConcurrentLines \cup {NoLine}
       \/ DevicesLoadClientCertificate(i)
       \/ DevicesDial(i)
       \/ DevicesWriteRequest(i)
       \/ DevicesWriteNewline(i)
       \/ DevicesReadLine(i) /\ line'[i] \in ConcurrentLines \cup {NoLine}
       \/ Finish(i)

SpecConcurrent == Init /\ [][NextConcurrent]_vars

\* what invocation i holds on its own stack
Locals(i) == <<pc[i], op[i], conn[i], priv[i], line[i], result[i], before[i]>>

\* C13: a step of one call, whatever it dials, sends or receives, changes
\* nothing another thread's call holds or will return, and changes nothing
\* of the Client or of its files.
C13_CallsShareNoState ==
    [][\A i \in Procs :
         Locals(i)' # Locals(i)
         => (/\ \A j \in Procs \ {i} : Locals(j)' = Locals(j)
             /\ UNCHANGED <<keyFile, certFile, caFile, seqNo>>)]_vars

C13_Witness ==
    \E i, j \in Procs :
       /\ op[i] = "Ping" /\ op[j] = "Devices"
       /\ pc[i] = "read"
       /\ line[i] = <<"resp", "ping-1", "ReadResponse", "200 OK", "X">>
       /\ conn[i].state = "open"
       /\ pc[j] = "done"
       /\ result[j] = Err("reset")
       /\ Len(conn[j].out) = 2

\* invocation i, in its read loop, takes a step that reads line l
ReadsLine(i, l) ==
    /\ op[i] \in Calls
    /\ pc[i] = "read"
    /\ vars' # vars
    /\ line'[i] = l

\* C21: a Call that reads a line that is not a response envelope fails with
\* an error: the step that reads the line is the step at which it returns.
C21_MalformedLineFailsCall ==
    [][\A i \in Procs :
         ReadsLine(i, <<"garbage">>) => (pc'[i] = "done" /\ result'[i][1] = "err")]_vars

\* C22: a line with the tag of the request whose class is neither the
\* success class of a read nor the exception class is discarded: after it
\* the Call is reading, with no error and nothing else returned.
C22_OtherClassDiscarded ==
    [][\A i \in Procs :
         (/\ ReadsResponse(i)
          /\ line'[i][2] = OwnTag(i)
          /\ line'[i][3] \notin {"ReadResponse", "ExceptionResponse"})
         => (pc'[i] = "read" /\ result'[i] = NoResult /\ conn'[i].state = "open")]_vars

C22_Witness ==
    \E i \in Procs :
       /\ op[i] \in Calls
       /\ pc[i] = "read"
       /\ line[i][1] = "resp"
       /\ line[i][2] = OwnTag(i)
       /\ line[i][3] = "CreateResponse"
       /\ result[i] = NoResult
       /\ conn[i].state = "open"

(* ---------------------------- termination ------------------------------ *)

\* the steps of Pair that wait for nobody: the calls on the connection that
\* return at once, the key generation and the file operations, and the
\* writes, which the deadline bounds
PairRuns(i) ==
    \/ PairSetDeadline(i)
    \/ PairGenerateKey(i)
    \/ PairOpenKeyFile(i)
    \/ PairWriteKey(i)
    \/ PairCreateCSR(i)
    \/ PairWriteRequest(i)
    \/ PairWriteNewline(i)
    \/ PairWriteCert(i)
    \/ PairWriteCA(i)

\* a read of Pair that is pending when the deadline has passed returns
PairReadTimesOut(i) ==
    /\ conn[i].expired
    /\ PairReadReady(i) \/ PairReadResponse(i)

\* Time passes and a thread that can run does run.  A read that waits for a
\* line of the peer has no fairness: the peer may never send one.
Fairness ==
    \A i \in Procs :
       /\ WF_vars(DeadlineExpires(i))
       /\ WF_vars(PairRuns(i))
       /\ WF_vars(PairReadTimesOut(i))

SpecFair == Spec /\ Fairness

WrittenEnvelopes(c) == {k \in 1..Len(c.out) : c.out[k].kind = "json"}

\* the step dials a connection for invocation i
Dials(i) == conn'[i] # conn[i] /\ \E port \in {controlPort, pairingPort} : conn'[i] = Dial(port)

\* C24: one invocation of Pair, Ping or Devices dials at most once, when it
\* has no connection yet, and writes at most one request envelope; a
\* connection that was closed is not used again; a step that yields an error
\* is a return; and an invocation that has returned does nothing more.
C24_NoRetry ==
    [][\A i \in Procs :
         /\ Dials(i) => (conn[i].state = "none" /\ result[i] = NoResult)
         /\ conn[i].state = "closed" => conn'[i] \in {conn[i], NoConn}
         /\ Cardinality(WrittenEnvelopes(conn'[i])) <= 1
         /\ (result[i] = NoResult /\ result'[i] # NoResult) => pc'[i] = "done"
         /\ pc[i] = "done"
            => \/ Locals(i)' = Locals(i)
               \/ pc'[i] = "idle" /\ conn'[i] = NoConn]_vars

C24_Witness ==
    \E i \in Procs :
       /\ op[i] = "Ping"
       /\ pc[i] = "done"
       /\ result[i] = Err("reset")
       /\ conn[i].state = "closed"
       /\ conn[i].outErr # "nil"
       /\ Cardinality(WrittenEnvelopes(conn[i])) = 1

\* the keys of the CSRs in the request envelopes written to connection c
CsrKeys(c) ==
    {JsonField(c.out[k].msg, "Body.Parameters.CSR")[3] : k \in WrittenEnvelopes(c)}

\* C25: the key of a Pair attempt is the key generated in that attempt,
\* which no earlier attempt had and which is not the key the key file held
\* when the attempt began; the CSR the attempt transmits is built from it.
C25_FreshKeyPerAttempt ==
    /\ [](\A i \in Procs :
            (op[i] = "Pair" /\ priv[i] # NoKey)
            => (/\ priv[i] = FreshKey(keysMade)
                /\ before[i][1] # Pem(priv[i])
                /\ CsrKeys(conn[i]) \subseteq {priv[i]}))
    /\ [][\A i \in Procs :
            priv'[i] \notin {priv[i], NoKey}
            => (/\ pc[i] = "generateKey"
                /\ keysMade' = keysMade + 1
                /\ priv'[i] = FreshKey(keysMade'))]_vars

C25_Witness ==
    \E i \in Procs :
       /\ op[i] = "Pair"
       /\ pc[i] = "readResponse"
       /\ priv[i] = FreshKey(2)
       /\ before[i][1] = Pem(FreshKey(1))
       /\ CsrKeys(conn[i]) = {FreshKey(2)}

\* C26: when Pair has returned the error of the dial or of the setting of
\* the deadline, it has generated no key and the three files hold what they
\* held when it began.
C26_EarlyFailureChangesNothing ==
    \A i \in Procs :
       (op[i] = "Pair" /\ pc[i] = "done" /\ result[i] \in {Err("dial"), Err("deadline")})
       => (priv[i] = NoKey /\ <<keyFile, certFile, caFile>> = before[i])

C26_Witness ==
    \E i \in Procs :
       /\ op[i] = "Pair"
       /\ pc[i] = "done"
       /\ result[i] = Err("deadline")
       /\ conn[i].state = "closed"
       /\ priv[i] = NoKey
       /\ before[i] = <<Pem(OldKey), Pem("A"), Pem("B")>>
       /\ keyFile = Pem(OldKey)

\* the errors of loadClientCertificate
LoadErrs == {Err("readfile"), Err("keypair")}

\* C27: when Ping or Devices has returned the error of the load of the
\* client certificate, it has dialed no connection and sent nothing.
C27_LoadFailureDialsNothing ==
    \A i \in Procs :
       (op[i] \in Calls /\ pc[i] = "done" /\ result[i] \in LoadErrs)
       => conn[i] = NoConn

C27_Witness ==
    \E i \in Procs :
       /\ op[i] = "Devices"
       /\ pc[i] = "done"
       /\ result[i] = Err("keypair")
       /\ conn[i] = NoConn
       /\ certFile = Pem("A")
       /\ keyFile = Pem(FreshKey(1))

\* what may have been transmitted on a connection: nothing, the request
\* object in part or whole, or the whole object and one newline
Framed(out) ==
    /\ Len(out) <= 2
    /\ Len(out) >= 1 => out[1].kind = "json"
    /\ Len(out) = 2 => (out[1].full /\ out[2].kind = "nl")

\* C28: on every connection what has been transmitted is a prefix of one
\* complete request object followed by one newline: the newline follows a
\* completely written object only, and nothing follows the newline.
C28_OneObjectOneNewline ==
    \A i \in Procs : Framed(conn[i].out)

C28_Witness ==
    \E i \in Procs :
       /\ op[i] = "Ping"
       /\ pc[i] = "read"
       /\ conn[i].outErr = "reset"
       /\ Len(conn[i].out) = 1
       /\ ~conn[i].out[1].full

====
